---------------------------- MODULE Spec2Model ----------------------------
(***************************************************************************)
(* Model of the SNMP profile generator (generate_profile.py):              *)
(*   - OidNode classification of raw MIB JSON records,                     *)
(*   - the MIB extractor with its per-MIB OID filter,                      *)
(*   - the profile assembly loop of generate_profile_from_mibs,            *)
(*   - the recursive 'extends' expansion and the OID diff of               *)
(*     update_profile.                                                     *)
(*                                                                         *)
(* Python strings that the code takes apart (OIDs) are sequences of        *)
(* one-character strings, so that split, join, endswith and 'in' are       *)
(* computed as the code computes them.  Python dicts are functions whose   *)
(* DOMAIN is the set of keys present; ordered dicts carry their key order  *)
(* as a sequence.  Objects that the code shares and mutates (profile       *)
(* nodes, symbols lists) live in a heap and are referred to by index.      *)
(***************************************************************************)
EXTENDS Integers, Sequences, FiniteSets, TLC

VARIABLES
    files,          \* mib name -> <<key order, key -> raw record>>: the loaded JSON documents (records are mutated in place)
    source,         \* the same documents as first read; never written
    listing,        \* os.listdir order of the MIB names
    filter_data,    \* the filter document (mib name -> sequence of root names), when one was given
    ext,            \* the extractor's locals: pc, mib_to_load_list, json_mibs, position, oid_list, warnings
    asm,            \* the assembly loop of generate_profile_from_mibs
    asm2,           \* a second assembly run (the same loop on a reordered input)
    plan,           \* the two node orders fed to asm and asm2
    docs,           \* profile file name -> profile document
    upd             \* update_profile's locals: call stack of the expansion, data, collection, output

vars == <<files, source, listing, filter_data, ext, asm, asm2, plan, docs, upd>>

-----------------------------------------------------------------------------
(* Bounds of the model. *)

\* longest JSON document (number of keys) of one MIB in the generate runs
MaxKeys == 3
\* longest prefix of other nodes in the order-independence runs
MaxPrefix == 2
\* longest metrics list of the old and of the new profile in the diff runs
MaxMetrics == 2
\* longest 'extends' list of a profile document in the expansion runs
MaxExtends == 2

-----------------------------------------------------------------------------
(* Python string operations on sequences of characters. *)

Dot == "."

\* s[:-k] for a list
DropLast(s, k) == IF Len(s) <= k THEN <<>> ELSE SubSeq(s, 1, Len(s) - k)

\* s.endswith(suf)
EndsWith(s, suf) ==
    /\ Len(suf) <= Len(s)
    /\ SubSeq(s, Len(s) - Len(suf) + 1, Len(s)) = suf

\* s.startswith(pre)
StartsWith(s, pre) ==
    /\ Len(pre) <= Len(s)
    /\ SubSeq(s, 1, Len(pre)) = pre

\* sub in s (substring containment)
Contains(s, sub) ==
    \E i \in 1..(Len(s) - Len(sub) + 1) : SubSeq(s, i, i + Len(sub) - 1) = sub

RECURSIVE SplitFrom(_, _, _)
\* s.split('.'): cur is the component being read
SplitFrom(s, i, cur) ==
    IF i > Len(s) THEN <<cur>>
    ELSE IF s[i] = Dot THEN <<cur>> \o SplitFrom(s, i + 1, <<>>)
    ELSE SplitFrom(s, i + 1, Append(cur, s[i]))

Split(s) == SplitFrom(s, 1, <<>>)

RECURSIVE Join(_)
\* '.'.join(parts)
Join(parts) ==
    IF Len(parts) = 0 THEN <<>>
    ELSE IF Len(parts) = 1 THEN parts[1]
    ELSE parts[1] \o <<Dot>> \o Join(Tail(parts))

\* the empty dict
EmptyDict == [k \in {} |-> 0]

\* d with d[k] = v (dict item assignment)
SetItem(d, k, v) == (k :> v) @@ d

\* the keys of a sequence of distinct items, as a set
Range(s) == {s[i] : i \in 1..Len(s)}

-----------------------------------------------------------------------------
(* OidNode.__init__ *)

\* a variant that tags a copy and leaves the raw record alone
TagNodeOnCopy(mib, mib_json_node) == mib_json_node

\* self.node['mib'] = mib, on the raw record itself
TagNode(mib, mib_json_node) == SetItem(mib_json_node, "mib", mib)

\* The constructor: raised (OidNodeInvalid), the attributes set on self, and
\* the raw record as the constructor leaves it.  An attribute the constructor
\* sets to None (max_access, description) or never sets (node_type) is absent.
OidNode(mib, mib_json_node) ==
    IF \/ "oid" \notin DOMAIN mib_json_node
       \/ "name" \notin DOMAIN mib_json_node
       \/ "class" \notin DOMAIN mib_json_node
    THEN [raised |-> TRUE, self |-> EmptyDict, node |-> mib_json_node]
    ELSE IF mib_json_node["class"] # "objecttype"
    THEN [raised |-> FALSE, self |-> [is_object |-> FALSE], node |-> mib_json_node]
    ELSE
      LET base == [is_object |-> TRUE,
                   name |-> mib_json_node["name"],
                   oid |-> mib_json_node["oid"],
                   mib |-> mib,
                   is_readable |-> TRUE,
                   is_middle_node |->
                       /\ "nodetype" \in DOMAIN mib_json_node
                       /\ mib_json_node["nodetype"] \notin {"table", "scalar", "column"},
                   is_unknown |-> "nodetype" \notin DOMAIN mib_json_node]
          typed == IF "nodetype" \in DOMAIN mib_json_node
                   THEN [node_type |-> mib_json_node["nodetype"]]
                   ELSE EmptyDict
          access == IF "maxaccess" \in DOMAIN mib_json_node
                    THEN [max_access |-> mib_json_node["maxaccess"]]
                    ELSE EmptyDict
          descr == IF "description" \in DOMAIN mib_json_node
                   THEN [description |-> mib_json_node["description"]]
                   ELSE EmptyDict
      IN [raised |-> FALSE,
          self |-> base @@ access @@ typed @@ descr,
          node |-> TagNode(mib, mib_json_node)]

-----------------------------------------------------------------------------
(* The assembly loop of generate_profile_from_mibs.                        *)
(* State of one run: keys/coll are profile_oid_collection (an OrderedDict: *)
(* key order and key -> object), objs the profile_node dicts created so    *)
(* far, lists the symbols lists created so far, profile_node the loop's    *)
(* local variable of that name (0: not bound yet).                         *)

AsmInit ==
    [keys |-> <<>>, coll |-> EmptyDict, objs |-> <<>>, lists |-> <<>>,
     profile_node |-> 0, status |-> "running", error |-> "none",
     metrics |-> <<>>, seen |-> <<>>]

Raise(st, exc) == [st EXCEPT !.status = "error", !.error = exc]

\* profile_oid_collection[key] = obj
CollSet(st, key, obj) ==
    [st EXCEPT !.coll = SetItem(@, key, obj),
               !.keys = IF key \in DOMAIN st.coll THEN @ ELSE Append(@, key)]

\* {'name': name, 'OID': oid} plus the description when the node has one
NamedOid(n, oid) ==
    [name |-> n.name, OID |-> oid]
      @@ (IF "description" \in DOMAIN n THEN [description |-> n.description] ELSE EmptyDict)

\* '.'.join(oid.split('.')[:-2])
TableOidOf(oid) == Join(DropLast(Split(oid), 2))

\* oid, with '.0' appended unless it ends with '.0'
ScalarOid(oid) == IF EndsWith(oid, <<Dot, "0">>) THEN oid ELSE oid \o <<Dot, "0">>

\* the branch node_type == 'table'
TableBranch(st, n) ==
    LET oid == n.oid
        found == oid \in DOMAIN st.coll
        id == Len(st.objs) + 1
    IN IF found /\ "symbols" \notin DOMAIN st.objs[st.coll[oid]]
       THEN Raise(st, "KeyError")
       ELSE
         LET lid == IF found THEN st.objs[st.coll[oid]]["symbols"] ELSE Len(st.lists) + 1
             st1 == [st EXCEPT !.lists = IF found THEN @ ELSE Append(@, <<>>),
                               !.objs = Append(@, [MIB |-> n.mib,
                                                   table |-> NamedOid(n, oid),
                                                   symbols |-> lid]),
                               !.profile_node = id]
         IN CollSet(st1, oid, id)

\* the provisional table of the branch node_type == 'column': the dict bound
\* to profile_node gets the keys 'table' and 'symbols' and is stored at table_oid
ProvisionalTable(st, n, table_oid) ==
    LET lid == Len(st.lists) + 1
        pn == st.profile_node
        st1 == [st EXCEPT !.lists = Append(@, <<>>),
                          !.objs[pn] = SetItem(SetItem(@, "table", [OID |-> table_oid]),
                                               "symbols", lid)]
    IN CollSet(st1, table_oid, pn)

\* the branch node_type == 'column'
ColumnBranch(st, n) ==
    LET table_oid == TableOidOf(n.oid)
        missing == table_oid \notin DOMAIN st.coll
    IN IF missing /\ st.profile_node = 0
       THEN Raise(st, "UnboundLocalError")
       ELSE
         LET st1 == IF missing THEN ProvisionalTable(st, n, table_oid) ELSE st
             entry == st1.objs[st1.coll[table_oid]]
         IN IF "symbols" \notin DOMAIN entry
            THEN Raise(st1, "KeyError")
            ELSE [st1 EXCEPT !.lists[entry["symbols"]] = Append(@, NamedOid(n, n.oid))]

\* the branch node_type == 'scalar'
ScalarBranch(st, n) ==
    LET oid == ScalarOid(n.oid)
        id == Len(st.objs) + 1
        st1 == [st EXCEPT !.objs = Append(@, [MIB |-> n.mib, symbol |-> NamedOid(n, oid)]),
                          !.profile_node = id]
    IN CollSet(st1, oid, id)

\* one iteration of the loop on oid_node n
AsmStep(st, n) ==
    LET st0 == [st EXCEPT !.seen = Append(@, n)]
    IN IF "node_type" \notin DOMAIN n THEN Raise(st0, "AttributeError")
       ELSE IF n.node_type = "table" THEN TableBranch(st0, n)
       ELSE IF n.node_type = "column" THEN ColumnBranch(st0, n)
       ELSE IF n.node_type = "scalar" THEN ScalarBranch(st0, n)
       ELSE st0

\* after the loop: metrics = the collection's items in key order
AsmFinish(st) ==
    [st EXCEPT !.metrics = [i \in 1..Len(st.keys) |-> st.coll[st.keys[i]]],
               !.status = "done"]

\* the value of a profile node object: its dict with the symbols list read out
EntryValue(st, id) ==
    LET d == st.objs[id]
    IN IF "symbols" \in DOMAIN d THEN SetItem(d, "symbols", st.lists[d["symbols"]]) ELSE d


-----------------------------------------------------------------------------
(* The MIB extractor: _filter_mib_oids and _extract_oids_from_mibs.        *)
(* A JSON document is [keys, recs]: the mapping's iteration order and its  *)
(* records.  A filtered document shares its records with the document it   *)
(* was filtered from, so json_mibs keeps only the key order of each        *)
(* retained mapping and the records stay in files.                         *)

\* filter_data is None (no filter path, or not a file)
NoFilter == [given |-> FALSE, data |-> EmptyDict]

\* filter_data as yaml.safe_load returns it
Filter(data) == [given |-> TRUE, data |-> data]

\* the MIB names a directory can hold, in the order str.sort() gives them
MibNames == <<"A-MIB", "B-MIB">>

Rank(mib) == CHOOSE i \in 1..Len(MibNames) : MibNames[i] = mib

RECURSIVE InsertSorted(_, _)
InsertSorted(sorted, mib) ==
    IF Len(sorted) = 0 THEN <<mib>>
    ELSE IF Rank(mib) < Rank(sorted[1]) THEN <<mib>> \o sorted
    ELSE <<sorted[1]>> \o InsertSorted(Tail(sorted), mib)

RECURSIVE SortList(_)
\* mib_to_load_list.sort()
SortList(list) ==
    IF Len(list) = 0 THEN <<>> ELSE InsertSorted(SortList(Tail(list)), list[1])

\* {node_name: node for ... if 'oid' in node and root_node['oid'] in node['oid']},
\* as the keys it keeps, in the document's order
FilteredOids(json_mib, root_oid) ==
    SelectSeq(json_mib.keys,
              LAMBDA key : /\ "oid" \in DOMAIN json_mib.recs[key]
                           /\ Contains(json_mib.recs[key]["oid"], root_oid))

\* a variant that puts the keys of a later root first
DictUpdateFront(keys, more) == SelectSeq(more, LAMBDA key : key \notin Range(keys)) \o keys

\* filtered_json_oids.update(filtered_oids): a key already present keeps its
\* place, a new key goes to the end
DictUpdate(keys, more) == keys \o SelectSeq(more, LAMBDA key : key \notin Range(keys))

RECURSIVE FilterLoop(_, _, _, _)
\* the loop over filter_data[mib], from root number i on
FilterLoop(json_mib, roots, i, filtered_json_oids) ==
    IF i > Len(roots) THEN [raised |-> FALSE, keys |-> filtered_json_oids]
    ELSE IF roots[i] \notin Range(json_mib.keys)
    THEN FilterLoop(json_mib, roots, i + 1, filtered_json_oids)
    ELSE IF "oid" \notin DOMAIN json_mib.recs[roots[i]]
    THEN [raised |-> TRUE, keys |-> filtered_json_oids]
    ELSE FilterLoop(json_mib, roots, i + 1,
                    DictUpdate(filtered_json_oids,
                               FilteredOids(json_mib, json_mib.recs[roots[i]]["oid"])))

filter_mib_oids(mib, json_mib, fd) ==
    IF ~fd.given THEN [raised |-> FALSE, keys |-> json_mib.keys]
    ELSE IF mib \notin DOMAIN fd.data THEN [raised |-> FALSE, keys |-> json_mib.keys]
    ELSE FilterLoop(json_mib, fd.data[mib], 1, <<>>)

ExtInit ==
    [pc |-> "list", mib_to_load_list |-> <<>>, loaded |-> <<>>, json_mibs |-> EmptyDict,
     m |-> 1, k |-> 1, oid_list |-> <<>>, warnings |-> <<>>, error |-> "none"]

RECURSIVE Advance(_)
\* the position of the next (mib, key) of the two nested loops, or the return
Advance(e) ==
    IF e.m > Len(e.loaded) THEN [e EXCEPT !.pc = "done"]
    ELSE IF e.k > Len(e.json_mibs[e.loaded[e.m]])
    THEN Advance([e EXCEPT !.m = e.m + 1, !.k = 1])
    ELSE e

\* after the loading loop: the classification loop starts
StartClassify(e) == Advance([e EXCEPT !.pc = "classify", !.m = 1, !.k = 1])

\* mib_to_load_list = _list_mib_filenames(...); mib_to_load_list.sort()
ListMibFilenames ==
    /\ ext.pc = "list"
    /\ LET e == [ext EXCEPT !.mib_to_load_list = SortList(listing), !.pc = "load", !.m = 1]
       IN ext' = IF Len(listing) = 0 THEN StartClassify(e) ELSE e
    /\ UNCHANGED <<files, source, listing, filter_data, asm, asm2, plan, docs, upd>>

\* one iteration of the loading loop: load (or skip) the MIB and filter it
LoadMib ==
    /\ ext.pc = "load"
    /\ ext.m <= Len(ext.mib_to_load_list)
    /\ LET mib == ext.mib_to_load_list[ext.m]
           last == ext.m = Len(ext.mib_to_load_list)
           next(e) == IF last THEN StartClassify(e) ELSE [e EXCEPT !.m = ext.m + 1]
       IN IF mib \notin DOMAIN files
          THEN ext' = next(ext)
          ELSE LET f == filter_mib_oids(mib, files[mib], filter_data)
               IN IF f.raised
                  THEN ext' = [ext EXCEPT !.pc = "error", !.error = "KeyError"]
                  ELSE ext' = next([ext EXCEPT !.json_mibs = SetItem(@, mib, f.keys),
                                               !.loaded = Append(@, mib)])
    /\ UNCHANGED <<files, source, listing, filter_data, asm, asm2, plan, docs, upd>>

\* one iteration of the classification loop: OidNode(mib, json_mib[key]) and
\* the tests that follow it
ClassifyNode ==
    /\ ext.pc = "classify"
    /\ LET mib == ext.loaded[ext.m]
           key == ext.json_mibs[mib][ext.k]
           r == OidNode(mib, files[mib].recs[key])
           step == [ext EXCEPT !.k = ext.k + 1]
           keep == /\ ~r.raised
                   /\ r.self["is_object"]
                   /\ r.self["is_readable"]
                   /\ ~r.self["is_middle_node"]
           warn == keep /\ r.self["is_unknown"]
       IN /\ files' = [files EXCEPT ![mib].recs[key] = r.node]
          /\ ext' = Advance([step EXCEPT
                        !.oid_list = IF keep THEN Append(@, r.self) ELSE @,
                        !.warnings = IF warn THEN Append(@, <<mib, r.self["name"], r.self["oid"]>>)
                                     ELSE @])
    /\ UNCHANGED <<source, listing, filter_data, asm, asm2, plan, docs, upd>>


-----------------------------------------------------------------------------
(* generate_profile_from_mibs: the loop over the extractor's result. *)

\* the oid_node of the current iteration
CurrentNode == ext.oid_list[Len(asm.seen) + 1]

InLoop ==
    /\ ext.pc = "done"
    /\ asm.status = "running"
    /\ Len(asm.seen) < Len(ext.oid_list)

AssembleTable ==
    /\ InLoop
    /\ "node_type" \in DOMAIN CurrentNode
    /\ CurrentNode.node_type = "table"
    /\ asm' = AsmStep(asm, CurrentNode)
    /\ UNCHANGED <<files, source, listing, filter_data, ext, asm2, plan, docs, upd>>

AssembleColumn ==
    /\ InLoop
    /\ "node_type" \in DOMAIN CurrentNode
    /\ CurrentNode.node_type = "column"
    /\ asm' = AsmStep(asm, CurrentNode)
    /\ UNCHANGED <<files, source, listing, filter_data, ext, asm2, plan, docs, upd>>

AssembleScalar ==
    /\ InLoop
    /\ "node_type" \in DOMAIN CurrentNode
    /\ CurrentNode.node_type = "scalar"
    /\ asm' = AsmStep(asm, CurrentNode)
    /\ UNCHANGED <<files, source, listing, filter_data, ext, asm2, plan, docs, upd>>

\* an oid_node without the attribute node_type (is_unknown)
AssembleUnknown ==
    /\ InLoop
    /\ "node_type" \notin DOMAIN CurrentNode
    /\ asm' = AsmStep(asm, CurrentNode)
    /\ UNCHANGED <<files, source, listing, filter_data, ext, asm2, plan, docs, upd>>

\* the loop is over: build and return metrics
GenerateReturn ==
    /\ ext.pc = "done"
    /\ asm.status = "running"
    /\ Len(asm.seen) = Len(ext.oid_list)
    /\ asm' = AsmFinish(asm)
    /\ UNCHANGED <<files, source, listing, filter_data, ext, asm2, plan, docs, upd>>

-----------------------------------------------------------------------------
(* Inputs. *)

\* all sequences of distinct elements of S of length at most n
RECURSIVE DistinctSeqs(_, _)
DistinctSeqs(S, n) ==
    IF n = 0 THEN {<<>>}
    ELSE LET shorter == DistinctSeqs(S, n - 1)
         IN shorter \cup UNION {{Append(q, x) : x \in S \ Range(q)} : q \in shorter}

Obj(name, oid, nodetype) ==
    [name |-> name, oid |-> oid, class |-> "objecttype", nodetype |-> nodetype,
     maxaccess |-> "read-only"]

\* raw records of the generate runs, by key
GenRecords ==
    [ifTable |-> Obj("ifTable", <<"1", Dot, "2">>, "table") @@ [description |-> "interfaces"],
     ifIndex |-> Obj("ifIndex", <<"1", Dot, "2", Dot, "1", Dot, "1">>, "column"),
     ifDescr |-> Obj("ifDescr", <<"1", Dot, "2", Dot, "1", Dot, "2">>, "column")
                     @@ [description |-> "text"],
     atTable |-> Obj("atTable", <<"1", Dot, "3">>, "table"),
     atIndex |-> Obj("atIndex", <<"1", Dot, "3", Dot, "1", Dot, "1">>, "column"),
     sysDescr |-> Obj("sysDescr", <<"1", Dot, "1">>, "scalar") @@ [description |-> "about"],
     sysUpTime |-> Obj("sysUpTime", <<"1", Dot, "4", Dot, "0">>, "scalar"),
     ifEntry |-> Obj("ifEntry", <<"1", Dot, "2", Dot, "1">>, "row"),
     mystery |-> [name |-> "mystery", oid |-> <<"1", Dot, "5">>, class |-> "objecttype"]]

\* raw records of the extraction runs, by key
ExtRecords ==
    [system |-> [name |-> "system", oid |-> <<"1", Dot, "1">>, class |-> "objectidentity"],
     sysDescr |-> Obj("sysDescr", <<"1", Dot, "1", Dot, "1">>, "scalar"),
     ifTable |-> Obj("ifTable", <<"1", Dot, "2">>, "table"),
     ifEntry |-> Obj("ifEntry", <<"1", Dot, "2", Dot, "1">>, "row"),
     ifIndex |-> Obj("ifIndex", <<"1", Dot, "2", Dot, "1", Dot, "1">>, "column"),
     odd |-> Obj("odd", <<"2", Dot, "1", Dot, "2">>, "scalar"),
     imports |-> [class |-> "imports"],
     mystery |-> [name |-> "mystery", oid |-> <<"1", Dot, "3">>, class |-> "objecttype"]]

\* the JSON document with the given keys, in that order
DocOf(records, keys) == [keys |-> keys, recs |-> [key \in Range(keys) |-> records[key]]]

\* the second MIB of the extraction runs
BDoc ==
    DocOf([bTable |-> Obj("bTable", <<"3", Dot, "1">>, "table"),
           bCount |-> Obj("bCount", <<"3", Dot, "2">>, "scalar")],
          <<"bTable", "bCount">>)

ExtFilters ==
    {NoFilter,
     Filter([x \in {"A-MIB"} |-> <<"system">>]),
     Filter([x \in {"A-MIB"} |-> <<"ifTable", "system">>]),
     Filter([x \in {"A-MIB"} |-> <<"absent", "ifTable">>]),
     Filter([x \in {"A-MIB"} |-> <<"imports">>]),
     Filter([x \in {"B-MIB"} |-> <<"bCount">>])}

UpdIdle == [pc |-> "idle"]

\* the extraction runs: a directory of two MIBs, the first one's document and
\* the filter document vary, the second one's JSON may be missing
InitExtract ==
    /\ \E keys \in DistinctSeqs(DOMAIN ExtRecords, MaxKeys), withB \in BOOLEAN :
          /\ Len(keys) > 0
          /\ files = IF withB
                     THEN [x \in {"A-MIB", "B-MIB"} |->
                              IF x = "A-MIB" THEN DocOf(ExtRecords, keys) ELSE BDoc]
                     ELSE [x \in {"A-MIB"} |-> DocOf(ExtRecords, keys)]
    /\ source = files
    /\ listing \in {<<"A-MIB", "B-MIB">>, <<"B-MIB", "A-MIB">>}
    /\ filter_data \in ExtFilters
    /\ ext = ExtInit
    /\ asm = AsmInit
    /\ asm2 = AsmInit
    /\ plan = <<>>
    /\ docs = EmptyDict
    /\ upd = UpdIdle

ExtractReturn ==
    /\ ext.pc = "done"
    /\ ext' = [ext EXCEPT !.pc = "returned"]
    /\ UNCHANGED <<files, source, listing, filter_data, asm, asm2, plan, docs, upd>>

NextExtract ==
    \/ ListMibFilenames
    \/ LoadMib
    \/ ClassifyNode
    \/ ExtractReturn

\* _extract_oids_from_mibs on its own
SpecExtract == InitExtract /\ [][NextExtract]_vars

\* the generate runs: the nodes are split over two MIBs, no filter
InitGen ==
    /\ \E keys \in DistinctSeqs(DOMAIN GenRecords, MaxKeys) :
       \E cut \in 0..Len(keys) :
          /\ Len(keys) > 0
          /\ files = [x \in {"A-MIB", "B-MIB"} |->
                         IF x = "A-MIB" THEN DocOf(GenRecords, SubSeq(keys, 1, cut))
                         ELSE DocOf(GenRecords, SubSeq(keys, cut + 1, Len(keys)))]
    /\ source = files
    /\ listing = <<"B-MIB", "A-MIB">>
    /\ filter_data = NoFilter
    /\ ext = ExtInit
    /\ asm = AsmInit
    /\ asm2 = AsmInit
    /\ plan = <<>>
    /\ docs = EmptyDict
    /\ upd = UpdIdle

NextGen ==
    \/ ListMibFilenames
    \/ LoadMib
    \/ ClassifyNode
    \/ AssembleTable
    \/ AssembleColumn
    \/ AssembleScalar
    \/ AssembleUnknown
    \/ GenerateReturn

\* generate_profile_from_mibs: extraction, then assembly
SpecGen == InitGen /\ [][NextGen]_vars


-----------------------------------------------------------------------------
(* Properties of the extractor (checked under SpecExtract). *)

IndexOf(seq, x) == CHOOSE i \in 1..Len(seq) : seq[i] = x

\* the classification loop has passed json_mibs[mib][key]
Classified(mib, key) ==
    /\ ext.pc \in {"classify", "done", "returned"}
    /\ mib \in Range(ext.loaded)
    /\ key \in Range(ext.json_mibs[mib])
    /\ \/ ext.pc # "classify"
       \/ IndexOf(ext.loaded, mib) < ext.m
       \/ /\ IndexOf(ext.loaded, mib) = ext.m
          /\ IndexOf(ext.json_mibs[mib], key) < ext.k

\* a raw record that is neither rejected nor filtered out by its class
Accepted(rec) ==
    /\ {"oid", "name", "class"} \subseteq DOMAIN rec
    /\ rec["class"] = "objecttype"

\* a raw record that ends up in the extractor's result
Emitted(rec) ==
    /\ Accepted(rec)
    /\ ("nodetype" \in DOMAIN rec => rec["nodetype"] \in {"table", "scalar", "column"})

\* C7 as stated: classification is pure, i.e. constructing an OidNode leaves
\* every raw record with the keys and values it was read with.
C7_ClassificationPure == files = source

\* C7 as amended: classification leaves a rejected record (a key among oid,
\* name, class missing) and a record whose class is not 'objecttype' unchanged;
\* to a record of class 'objecttype' it adds the key 'mib' with the MIB name
\* and changes no other key or value.
C7_ClassificationTagsMib ==
    \A mib \in DOMAIN source :
        /\ files[mib].keys = source[mib].keys
        /\ \A key \in Range(source[mib].keys) :
              LET src == source[mib].recs[key]
              IN files[mib].recs[key] =
                    IF Classified(mib, key) /\ Accepted(src)
                    THEN [x \in DOMAIN src \cup {"mib"} |-> IF x = "mib" THEN mib ELSE src[x]]
                    ELSE src

\* C7's case: the extractor has returned after classifying a rejected record,
\* a record of another class and an accepted record of the same MIB.
C7_Witness ==
    /\ ext.pc = "returned"
    /\ \E k1, k2, k3 \in Range(source["A-MIB"].keys) :
          /\ Classified("A-MIB", k1) /\ "oid" \notin DOMAIN source["A-MIB"].recs[k1]
          /\ Classified("A-MIB", k2) /\ Accepted(source["A-MIB"].recs[k2])
          /\ Classified("A-MIB", k3) /\ "oid" \in DOMAIN source["A-MIB"].recs[k3]
                                     /\ ~Accepted(source["A-MIB"].recs[k3])

\* the roots configured for mib that are present in its tree
PresentRoots(mib) ==
    {i \in 1..Len(filter_data.data[mib]) :
        filter_data.data[mib][i] \in Range(source[mib].keys)}

RootOid(mib, i) == source[mib].recs[filter_data.data[mib][i]]["oid"]

\* C8 as stated: with a filter entry for the MIB, a node is retained if and
\* only if its OID string begins with the OID string of a configured root
\* that is present in the tree; without a filter entry every node is retained.
C8_FilterIsPrefixBased ==
    \A mib \in DOMAIN ext.json_mibs :
        Range(ext.json_mibs[mib]) =
            IF filter_data.given /\ mib \in DOMAIN filter_data.data
            THEN {key \in Range(source[mib].keys) :
                    /\ "oid" \in DOMAIN source[mib].recs[key]
                    /\ \E i \in PresentRoots(mib) :
                          StartsWith(source[mib].recs[key]["oid"], RootOid(mib, i))}
            ELSE Range(source[mib].keys)

\* the extractor's result as <<mib, name>> pairs
EmittedPairs == [i \in 1..Len(ext.oid_list) |-> <<ext.oid_list[i].mib, ext.oid_list[i].name>>]

\* the MIB of MibNames[i] was listed and its JSON document could be loaded
Contributes(i) == MibNames[i] \in Range(listing) /\ MibNames[i] \in DOMAIN source

\* the retained, emitted nodes of mib in the order of its JSON document
InDocumentOrder(mib) ==
    LET kept == SelectSeq(source[mib].keys,
                          LAMBDA key : /\ key \in Range(ext.json_mibs[mib])
                                       /\ Emitted(source[mib].recs[key]))
    IN [i \in 1..Len(kept) |-> <<mib, kept[i]>>]

RECURSIVE DocumentOrderFrom(_)
\* the per-MIB document orders, concatenated in the sorted order of the MIB names
DocumentOrderFrom(i) ==
    IF i > Len(MibNames) THEN <<>>
    ELSE (IF Contributes(i) THEN InDocumentOrder(MibNames[i]) ELSE <<>>)
         \o DocumentOrderFrom(i + 1)

\* C9 as stated: the result lists the MIBs in sorted order and, within each
\* MIB, the retained nodes in the order of the MIB's JSON document, whatever
\* the filter document.
C9_DocumentOrder ==
    ext.pc \in {"done", "returned"} => EmittedPairs = DocumentOrderFrom(1)

\* the first configured root (in the filter's order) that retains the key, 0 if none
FirstRoot(mib, key) ==
    LET rec == source[mib].recs[key]
        hits == {i \in PresentRoots(mib) :
                    "oid" \in DOMAIN rec /\ Contains(rec["oid"], RootOid(mib, i))}
    IN IF hits = {} THEN 0 ELSE CHOOSE i \in hits : \A j \in hits : i <= j

RECURSIVE ByRoot(_, _)
\* the emitted nodes of a filtered mib, root by root from root i on
ByRoot(mib, i) ==
    IF i > Len(filter_data.data[mib]) THEN <<>>
    ELSE LET kept == SelectSeq(source[mib].keys,
                               LAMBDA key : /\ FirstRoot(mib, key) = i
                                            /\ Emitted(source[mib].recs[key]))
         IN [j \in 1..Len(kept) |-> <<mib, kept[j]>>] \o ByRoot(mib, i + 1)

InFilterOrder(mib) ==
    IF filter_data.given /\ mib \in DOMAIN filter_data.data
    THEN ByRoot(mib, 1)
    ELSE InDocumentOrder(mib)

RECURSIVE FilterOrderFrom(_)
FilterOrderFrom(i) ==
    IF i > Len(MibNames) THEN <<>>
    ELSE (IF Contributes(i) THEN InFilterOrder(MibNames[i]) ELSE <<>>)
         \o FilterOrderFrom(i + 1)

\* C9 as amended: the result lists the MIBs in sorted order; within a MIB that
\* has no filter entry the nodes come in the order of the JSON document;
\* within a MIB that has one they come grouped by the first configured root
\* (in the order the filter lists the roots) that retains them, and in
\* document order within one root.
C9_FilterRootOrder ==
    ext.pc \in {"done", "returned"} => EmittedPairs = FilterOrderFrom(1)

\* C9's case: both MIBs contributed, and two nodes of the filtered MIB came out
\* in the opposite of their document order.
C9_Witness ==
    /\ ext.pc = "returned"
    /\ \E i, j \in 1..Len(ext.oid_list) :
          /\ i < j
          /\ ext.oid_list[i].mib = "A-MIB" /\ ext.oid_list[j].mib = "A-MIB"
          /\ IndexOf(source["A-MIB"].keys, ext.oid_list[i].name)
                > IndexOf(source["A-MIB"].keys, ext.oid_list[j].name)
    /\ \E i \in 1..Len(ext.oid_list) : ext.oid_list[i].mib = "B-MIB"


-----------------------------------------------------------------------------
(* Properties of the assembly loop (checked under SpecGen). *)

Last(seq) == seq[Len(seq)]

IsUnknown(n) == "node_type" \notin DOMAIN n

IsKind(n, kind) == "node_type" \in DOMAIN n /\ n.node_type = kind

\* the names that occur in the entry: its table's, its symbol's, its symbols'
NamesIn(entry) ==
    (IF "table" \in DOMAIN entry /\ "name" \in DOMAIN entry["table"]
     THEN {entry["table"]["name"]} ELSE {})
    \cup (IF "symbol" \in DOMAIN entry THEN {entry["symbol"]["name"]} ELSE {})
    \cup (IF "symbols" \in DOMAIN entry
          THEN {entry["symbols"][i]["name"] : i \in 1..Len(entry["symbols"])} ELSE {})

\* C3: a record of class 'objecttype' without 'nodetype' is reported by the
\* extractor as a warning, the assembly loop does not fail on it, and the
\* returned profile holds no entry and no symbol derived from it.
C3_UnknownIsSkipped ==
    /\ ext.pc = "done" =>
          \A i \in 1..Len(ext.oid_list) :
              IsUnknown(ext.oid_list[i]) =>
                 \E w \in 1..Len(ext.warnings) :
                     ext.warnings[w] = <<ext.oid_list[i].mib, ext.oid_list[i].name,
                                         ext.oid_list[i].oid>>
    /\ (Len(asm.seen) > 0 /\ IsUnknown(Last(asm.seen))) => asm.status # "error"
    /\ asm.status = "done" =>
          \A i \in 1..Len(asm.metrics), j \in 1..Len(asm.seen) :
              IsUnknown(asm.seen[j]) =>
                 asm.seen[j].name \notin NamesIn(EntryValue(asm, asm.metrics[i]))

\* C4: every entry stored under a key K that has a 'table' has table.OID = K,
\* and the returned metrics hold no entry object twice and no table OID twice.
C4_TableKeysUnique ==
    asm.status # "error" =>
       /\ \A key \in DOMAIN asm.coll :
             "table" \in DOMAIN asm.objs[asm.coll[key]] =>
                 asm.objs[asm.coll[key]]["table"]["OID"] = key
       /\ \A i, j \in 1..Len(asm.metrics) :
             i # j =>
               /\ asm.metrics[i] # asm.metrics[j]
               /\ ("table" \in DOMAIN asm.objs[asm.metrics[i]]
                     /\ "table" \in DOMAIN asm.objs[asm.metrics[j]])
                  => asm.objs[asm.metrics[i]]["table"]["OID"]
                        # asm.objs[asm.metrics[j]]["table"]["OID"]

\* oid is key.1.N: key, a dot, and two more dot-free components
IsColumnOf(oid, key) ==
    /\ StartsWith(oid, key \o <<Dot>>)
    /\ Len(Split(SubSeq(oid, Len(key) + 2, Len(oid)))) = 2

\* the symbols of the column nodes of table key seen so far, in encounter order
ColumnsSeen(key) ==
    LET cols == SelectSeq(asm.seen, LAMBDA n : IsKind(n, "column") /\ IsColumnOf(n.oid, key))
    IN [i \in 1..Len(cols) |->
           [name |-> cols[i].name, OID |-> cols[i].oid]
             @@ (IF "description" \in DOMAIN cols[i]
                 THEN [description |-> cols[i].description] ELSE EmptyDict)]

\* C5: for every key K whose entry has a 'table', the entry's symbols are exactly
\* the symbols of the column nodes X.1.N with X = K, in encounter order.
C5_SymbolsAreTheColumns ==
    asm.status # "error" =>
       \A key \in DOMAIN asm.coll :
           "table" \in DOMAIN asm.objs[asm.coll[key]] =>
               EntryValue(asm, asm.coll[key])["symbols"] = ColumnsSeen(key)

\* norm of C6: an OID ending in '.0' is left alone, any other gets one '.0'
Norm(oid) ==
    IF Len(oid) >= 2 /\ oid[Len(oid) - 1] = Dot /\ oid[Len(oid)] = "0"
    THEN oid ELSE oid \o <<Dot, "0">>

\* C6: the entry of a scalar node S, as long as no later scalar has the same
\* normalized OID, is exactly {MIB, symbol: {name, OID: norm(S.oid), description?}},
\* and norm is idempotent.
C6_ScalarNeverMerged ==
    asm.status # "error" =>
       \A i \in 1..Len(asm.seen) :
           LET n == asm.seen[i]
           IN (/\ IsKind(n, "scalar")
               /\ \A j \in (i + 1)..Len(asm.seen) :
                     IsKind(asm.seen[j], "scalar") => Norm(asm.seen[j].oid) # Norm(n.oid))
              => /\ Norm(Norm(n.oid)) = Norm(n.oid)
                 /\ Norm(n.oid) \in DOMAIN asm.coll
                 /\ EntryValue(asm, asm.coll[Norm(n.oid)]) =
                       [MIB |-> n.mib,
                        symbol |-> [name |-> n.name, OID |-> Norm(n.oid)]
                                     @@ (IF "description" \in DOMAIN n
                                         THEN [description |-> n.description]
                                         ELSE EmptyDict)]


-----------------------------------------------------------------------------
(* Two assembly runs on the same nodes: the table before its columns (asm) *)
(* and the columns before their table (asm2), after a common prefix.       *)

\* the oid_node the extractor makes of a record of GenRecords
NodeOf(mib, key) == OidNode(mib, GenRecords[key]).self

TableFirst == plan.prefix \o <<plan.table>> \o plan.columns

ColumnsFirst == plan.prefix \o plan.columns \o <<plan.table>>

\* a table, its columns in some order (at least one), and a prefix of other nodes
Plans ==
    LET tables == [ifTable |-> {"ifIndex", "ifDescr"}, atTable |-> {"atIndex"}]
        others(t) == (DOMAIN GenRecords \ ({t} \cup tables[t])) \ {"mystery", "ifEntry"}
        nodes(mib, keys) == [i \in 1..Len(keys) |-> NodeOf(mib, keys[i])]
    IN UNION {
         {[prefix |-> nodes("A-MIB", pre), table |-> NodeOf("A-MIB", t),
           columns |-> nodes(cmib, cols)] :
             pre \in DistinctSeqs(others(t), MaxPrefix),
             cols \in DistinctSeqs(tables[t], Cardinality(tables[t])) \ {<<>>},
             cmib \in {"A-MIB", "B-MIB"}} :
         t \in DOMAIN tables}

InitOrder ==
    /\ plan \in Plans
    /\ asm = AsmInit
    /\ asm2 = AsmInit
    /\ files = EmptyDict
    /\ source = EmptyDict
    /\ listing = <<>>
    /\ filter_data = NoFilter
    /\ ext = [pc |-> "idle"]
    /\ docs = EmptyDict
    /\ upd = UpdIdle

\* one iteration of the first run
StepTableFirst ==
    /\ asm.status = "running"
    /\ Len(asm.seen) < Len(TableFirst)
    /\ asm' = AsmStep(asm, TableFirst[Len(asm.seen) + 1])
    /\ UNCHANGED <<files, source, listing, filter_data, ext, asm2, plan, docs, upd>>

ReturnTableFirst ==
    /\ asm.status = "running"
    /\ Len(asm.seen) = Len(TableFirst)
    /\ asm' = AsmFinish(asm)
    /\ UNCHANGED <<files, source, listing, filter_data, ext, asm2, plan, docs, upd>>

\* one iteration of the second run, started when the first run is over
StepColumnsFirst ==
    /\ asm.status # "running"
    /\ asm2.status = "running"
    /\ Len(asm2.seen) < Len(ColumnsFirst)
    /\ asm2' = AsmStep(asm2, ColumnsFirst[Len(asm2.seen) + 1])
    /\ UNCHANGED <<files, source, listing, filter_data, ext, asm, plan, docs, upd>>

ReturnColumnsFirst ==
    /\ asm.status # "running"
    /\ asm2.status = "running"
    /\ Len(asm2.seen) = Len(ColumnsFirst)
    /\ asm2' = AsmFinish(asm2)
    /\ UNCHANGED <<files, source, listing, filter_data, ext, asm, plan, docs, upd>>

NextOrder ==
    \/ StepTableFirst
    \/ ReturnTableFirst
    \/ StepColumnsFirst
    \/ ReturnColumnsFirst

SpecOrder == InitOrder /\ [][NextOrder]_vars

\* the loop got past the prefix, which is the same in both runs
PrefixAssembled == asm.status = "done" \/ Len(asm.seen) > Len(plan.prefix)

\* C1: for a table T, its columns and any prefix of other nodes (that the loop
\* gets past), assembling T before its columns and assembling the columns
\* before T both complete and leave the same entry at key T.oid (MIB, table
\* name and OID, symbols in order).
C1_OrderIndependent ==
    (asm.status # "running" /\ asm2.status # "running" /\ PrefixAssembled) =>
        /\ asm.status = "done"
        /\ asm2.status = "done"
        /\ plan.table.oid \in DOMAIN asm.coll
        /\ plan.table.oid \in DOMAIN asm2.coll
        /\ EntryValue(asm, asm.coll[plan.table.oid])
              = EntryValue(asm2, asm2.coll[plan.table.oid])


-----------------------------------------------------------------------------
(* update_profile: _recursively_expand_profile,                            *)
(* _extract_oid_collection_from_profile_data and the diff loop.            *)
(* upd.stack is the call stack of the expansion: one frame per active      *)
(* call, holding the call's 'extends' list and the number of the base it   *)
(* expands next.                                                           *)

ProfileOld == "old.yaml"

ProfileNew == "new.yaml"

\* d.get(key, [])
GetOr(d, key) == IF key \in DOMAIN d THEN d[key] ELSE <<>>

\* a variant that adds the expanded metrics after the existing ones
AppendMetrics(expanded_metrics, existing_metrics) == existing_metrics \o expanded_metrics

\* expanded_metrics + existing_metrics
PrependMetrics(expanded_metrics, existing_metrics) == expanded_metrics \o existing_metrics

UpdInit ==
    [pc |-> "expand", stack |-> <<>>, started |-> FALSE, data |-> EmptyDict,
     coll |-> EmptyDict, nodes |-> <<>>, metrics |-> <<>>, j |-> 1, output |-> <<>>,
     error |-> "none"]

\* the body of _recursively_expand_profile(filename, data) up to its loop
EnterCall(u, filename) ==
    IF filename \notin DOMAIN docs
    THEN [u EXCEPT !.pc = "error", !.error = "FileNotFoundError"]
    ELSE LET expanded_data == docs[filename]
             expanded_metrics == GetOr(expanded_data, "metrics")
             existing_metrics == GetOr(u.data, "metrics")
         IN [u EXCEPT !.data = SetItem(@, "metrics",
                                       PrependMetrics(expanded_metrics, existing_metrics)),
                      !.stack = Append(@, [extends |-> GetOr(expanded_data, "extends"),
                                           i |-> 1])]

\* update_profile calls _recursively_expand_profile(profile_old, data)
ExpandStart ==
    /\ upd.pc = "expand"
    /\ ~upd.started
    /\ upd' = EnterCall([upd EXCEPT !.started = TRUE], ProfileOld)
    /\ UNCHANGED <<files, source, listing, filter_data, ext, asm, asm2, plan, docs>>

\* the loop of the innermost call reaches its next base: the recursive call
ExpandBase ==
    /\ upd.pc = "expand"
    /\ Len(upd.stack) > 0
    /\ LET top == upd.stack[Len(upd.stack)]
       IN /\ top.i <= Len(top.extends)
          /\ upd' = EnterCall([upd EXCEPT !.stack[Len(upd.stack)].i = top.i + 1],
                              top.extends[top.i])
    /\ UNCHANGED <<files, source, listing, filter_data, ext, asm, asm2, plan, docs>>

\* the loop of the innermost call is over: the call returns
ExpandReturn ==
    /\ upd.pc = "expand"
    /\ Len(upd.stack) > 0
    /\ LET top == upd.stack[Len(upd.stack)]
       IN /\ top.i > Len(top.extends)
          /\ upd' = [upd EXCEPT !.stack = DropLast(@, 1),
                                !.pc = IF Len(upd.stack) = 1 THEN "collect" ELSE @]
    /\ UNCHANGED <<files, source, listing, filter_data, ext, asm, asm2, plan, docs>>

RECURSIVE SymbolsLoop(_, _, _, _)
\* the loop over table['symbols'] of metric number m: c is the collection and
\* its oid_node objects so far
SymbolsLoop(symbols, s, m, c) ==
    IF s > Len(symbols) \/ c.raised THEN c
    ELSE IF "OID" \notin DOMAIN symbols[s] THEN SymbolsLoop(symbols, s + 1, m, c)
    ELSE IF "name" \notin DOMAIN symbols[s] THEN [c EXCEPT !.raised = TRUE]
    ELSE SymbolsLoop(symbols, s + 1, m,
                     [c EXCEPT !.nodes[m] = SetItem(SetItem(@, "name", symbols[s]["name"]),
                                                    "oid", symbols[s]["OID"]),
                               !.coll = SetItem(@, symbols[s]["OID"], m)])

\* the 'table' branch for metric number m
CollectTable(table, m, c) ==
    LET c1 == IF "OID" \notin DOMAIN table THEN c
              ELSE IF "name" \notin DOMAIN table THEN [c EXCEPT !.raised = TRUE]
              ELSE [c EXCEPT !.nodes[m] = SetItem(SetItem(@, "name", table["name"]),
                                                  "oid", table["OID"]),
                             !.coll = SetItem(@, table["OID"], m)]
    IN IF c1.raised \/ "symbols" \notin DOMAIN table THEN c1
       ELSE SymbolsLoop(table["symbols"], 1, m, c1)

\* the 'symbol' branch for metric number m
CollectSymbol(symbol, m, c) ==
    IF "OID" \notin DOMAIN symbol THEN c
    ELSE IF "name" \notin DOMAIN symbol THEN [c EXCEPT !.raised = TRUE]
    ELSE LET oid == IF EndsWith(symbol["OID"], <<Dot, "0">>)
                    THEN DropLast(symbol["OID"], 2) ELSE symbol["OID"]
         IN [c EXCEPT !.nodes[m] = SetItem(SetItem(@, "name", symbol["name"]), "oid", oid),
                      !.coll = SetItem(@, oid, m)]

RECURSIVE CollectLoop(_, _, _)
\* the loop over data['metrics'], from metric number m on
CollectLoop(metrics, m, c) ==
    IF m > Len(metrics) \/ c.raised THEN c
    ELSE IF "MIB" \notin DOMAIN metrics[m] THEN [c EXCEPT !.raised = TRUE]
    ELSE LET c0 == [c EXCEPT !.nodes = Append(@, [mib |-> metrics[m]["MIB"]])]
             c1 == IF "table" \in DOMAIN metrics[m]
                   THEN CollectTable(metrics[m]["table"], m, c0)
                   ELSE IF "symbol" \in DOMAIN metrics[m]
                   THEN CollectSymbol(metrics[m]["symbol"], m, c0)
                   ELSE c0
         IN CollectLoop(metrics, m + 1, c1)

\* oid_collection: key -> number of the oid_node object, and the objects
extract_oid_collection_from_profile_data(data) ==
    IF "metrics" \notin DOMAIN data
    THEN [raised |-> TRUE, coll |-> EmptyDict, nodes |-> <<>>]
    ELSE CollectLoop(data["metrics"], 1, [raised |-> FALSE, coll |-> EmptyDict, nodes |-> <<>>])

\* profile_old_oid_collection = ...; metrics = _read_profile_definition(profile_new)['metrics']
LoadProfiles ==
    /\ upd.pc = "collect"
    /\ LET c == extract_oid_collection_from_profile_data(upd.data)
       IN IF c.raised \/ ProfileNew \notin DOMAIN docs
          THEN upd' = [upd EXCEPT !.pc = "error", !.error = "KeyError"]
          ELSE IF "metrics" \notin DOMAIN docs[ProfileNew]
          THEN upd' = [upd EXCEPT !.pc = "error", !.error = "KeyError"]
          ELSE upd' = [upd EXCEPT !.pc = "diff", !.coll = c.coll, !.nodes = c.nodes,
                                  !.metrics = docs[ProfileNew]["metrics"], !.j = 1]
    /\ UNCHANGED <<files, source, listing, filter_data, ext, asm, asm2, plan, docs>>

\* one iteration of the diff loop
DiffStep ==
    /\ upd.pc = "diff"
    /\ upd.j <= Len(upd.metrics)
    /\ LET oid_node == upd.metrics[upd.j]
           next == [upd EXCEPT !.j = upd.j + 1]
           keep(oid) == IF oid \notin DOMAIN upd.coll
                        THEN [next EXCEPT !.output = Append(@, oid_node)]
                        ELSE next
       IN IF "table" \in DOMAIN oid_node
          THEN IF "OID" \in DOMAIN oid_node["table"]
               THEN upd' = keep(oid_node["table"]["OID"])
               ELSE upd' = [upd EXCEPT !.pc = "error", !.error = "KeyError"]
          ELSE IF "symbol" \in DOMAIN oid_node
          THEN IF "OID" \in DOMAIN oid_node["symbol"]
               THEN upd' = keep(oid_node["symbol"]["OID"])
               ELSE upd' = [upd EXCEPT !.pc = "error", !.error = "KeyError"]
          ELSE upd' = next
    /\ UNCHANGED <<files, source, listing, filter_data, ext, asm, asm2, plan, docs>>

\* the loop is over: the output is dumped
UpdateReturn ==
    /\ upd.pc = "diff"
    /\ upd.j > Len(upd.metrics)
    /\ upd' = [upd EXCEPT !.pc = "done"]
    /\ UNCHANGED <<files, source, listing, filter_data, ext, asm, asm2, plan, docs>>

NextUpdate ==
    \/ ExpandStart
    \/ ExpandBase
    \/ ExpandReturn
    \/ LoadProfiles
    \/ DiffStep
    \/ UpdateReturn


-----------------------------------------------------------------------------
(* Inputs of update_profile. *)

Sym(name, oid) == [name |-> name, OID |-> oid]

\* profile entries of the diff runs
DiffEntries ==
    [sysDescr |-> [MIB |-> "M", symbol |-> Sym("sysDescr", <<"1", Dot, "1", Dot, "0">>)],
     sysName |-> [MIB |-> "M", symbol |-> Sym("sysName", <<"1", Dot, "1">>)],
     sysTable |-> [MIB |-> "M", table |-> Sym("sysTable", <<"1", Dot, "1">>), symbols |-> <<>>],
     ifTable |-> [MIB |-> "M", table |-> Sym("ifTable", <<"1", Dot, "2">>),
                  symbols |-> <<Sym("ifIndex", <<"1", Dot, "2", Dot, "1", Dot, "1">>)>>],
     atTable |-> [MIB |-> "M",
                  table |-> Sym("atTable", <<"1", Dot, "3">>)
                              @@ [symbols |-> <<Sym("atIndex", <<"1", Dot, "3", Dot, "1", Dot, "1">>)>>]],
     tagsOnly |-> [MIB |-> "M", metric_tags |-> <<"tag">>],
     unnamed |-> [MIB |-> "M", table |-> [OID |-> <<"1", Dot, "4">>], symbols |-> <<>>]]

EntriesOf(keys) == [i \in 1..Len(keys) |-> DiffEntries[keys[i]]]

BaseFile == "base.yaml"

\* the diff runs: the old profile's metrics, some of them in a base profile
\* the old profile extends, and the new profile's metrics
InitDiff ==
    /\ \E old \in DistinctSeqs(DOMAIN DiffEntries, MaxMetrics),
          new \in DistinctSeqs(DOMAIN DiffEntries, MaxMetrics) :
       \E cut \in 0..Len(old) :
          docs = (ProfileNew :> [metrics |-> EntriesOf(new)])
                 @@ (IF cut = 0
                     THEN (ProfileOld :> [metrics |-> EntriesOf(old)])
                     ELSE (ProfileOld :> [metrics |-> EntriesOf(SubSeq(old, cut + 1, Len(old))),
                                          extends |-> <<BaseFile>>])
                          @@ (BaseFile :> [metrics |-> EntriesOf(SubSeq(old, 1, cut))]))
    /\ upd = UpdInit
    /\ files = EmptyDict
    /\ source = EmptyDict
    /\ listing = <<>>
    /\ filter_data = NoFilter
    /\ ext = [pc |-> "idle"]
    /\ asm = AsmInit
    /\ asm2 = AsmInit
    /\ plan = <<>>

\* update_profile on varying metrics
SpecDiff == InitDiff /\ [][NextUpdate]_vars

\* the base profiles of the expansion runs; a profile extends only profiles
\* that come later in this list, so the 'extends' graph is acyclic
BaseFiles == <<"b1.yaml", "b2.yaml", "b3.yaml">>

Metric(name, last) == [MIB |-> "M", symbol |-> Sym(name, <<"1", Dot, last>>)]

OwnMetrics ==
    (ProfileOld :> <<Metric("o1", "1"), Metric("o2", "2")>>)
    @@ ("b1.yaml" :> <<Metric("x1", "3")>>)
    @@ ("b2.yaml" :> <<Metric("x2", "4")>>)
    @@ ("b3.yaml" :> <<Metric("x3", "5")>>)

\* a profile document: 'extends' is left out when empty
Profile(metrics, extends) ==
    [metrics |-> metrics] @@ (IF extends = <<>> THEN EmptyDict ELSE [extends |-> extends])

LaterBases(i) == {BaseFiles[j] : j \in (i + 1)..Len(BaseFiles)}

InitExpand ==
    /\ \E e0 \in DistinctSeqs(LaterBases(0), MaxExtends),
          e1 \in DistinctSeqs(LaterBases(1), MaxExtends),
          e2 \in DistinctSeqs(LaterBases(2), MaxExtends),
          bare3 \in BOOLEAN :
          docs = (ProfileOld :> Profile(OwnMetrics[ProfileOld], e0))
                 @@ ("b1.yaml" :> Profile(OwnMetrics["b1.yaml"], e1))
                 @@ ("b2.yaml" :> Profile(OwnMetrics["b2.yaml"], e2))
                 @@ ("b3.yaml" :> IF bare3 THEN EmptyDict ELSE Profile(OwnMetrics["b3.yaml"], <<>>))
                 @@ (ProfileNew :> [metrics |-> <<Metric("x1", "3"), Metric("n1", "6")>>])
    /\ upd = UpdInit
    /\ files = EmptyDict
    /\ source = EmptyDict
    /\ listing = <<>>
    /\ filter_data = NoFilter
    /\ ext = [pc |-> "idle"]
    /\ asm = AsmInit
    /\ asm2 = AsmInit
    /\ plan = <<>>

\* update_profile on varying 'extends' graphs; the interpreter keeps running
SpecExpand == InitExpand /\ [][NextUpdate]_vars /\ WF_vars(NextUpdate)

-----------------------------------------------------------------------------
(* Properties of update_profile. *)

\* the entry has an OID to diff by: table.OID, else symbol.OID
HasOid(entry) ==
    \/ "table" \in DOMAIN entry /\ "OID" \in DOMAIN entry["table"]
    \/ "table" \notin DOMAIN entry /\ "symbol" \in DOMAIN entry
          /\ "OID" \in DOMAIN entry["symbol"]

OidOfEntry(entry) ==
    IF "table" \in DOMAIN entry THEN entry["table"]["OID"] ELSE entry["symbol"]["OID"]

\* the OIDs of the expanded old profile
OldOids ==
    {OidOfEntry(upd.data["metrics"][i]) :
        i \in {k \in 1..Len(upd.data["metrics"]) : HasOid(upd.data["metrics"][k])}}

\* C2: the output is exactly the new entries, in the new list's order, whose OID
\* (table.OID or symbol.OID) equals the table.OID or symbol.OID of no entry of
\* the expanded old profile; entries with neither 'table' nor 'symbol' are skipped.
C2_DiffByOidSet ==
    upd.pc = "done" =>
        upd.output = SelectSeq(docs[ProfileNew]["metrics"],
                               LAMBDA e : HasOid(e) /\ OidOfEntry(e) \notin OldOids)

RECURSIVE ExpandRec(_)
RECURSIVE ExpandBases(_, _, _)
\* expand(f) = metrics(f) with, for each base in listed order, expand(base)
\* prepended to the list built so far
ExpandRec(f) == ExpandBases(GetOr(docs[f], "extends"), 1, GetOr(docs[f], "metrics"))

ExpandBases(extends, i, built) ==
    IF i > Len(extends) THEN built
    ELSE ExpandBases(extends, i + 1, ExpandRec(extends[i]) \o built)

RECURSIVE ReachableFrom(_)
\* the documents the expansion of f reads
ReachableFrom(f) ==
    {f} \cup UNION {ReachableFrom(GetOr(docs[f], "extends")[i]) :
                       i \in 1..Len(GetOr(docs[f], "extends"))}

\* the place of the first occurrence of metric x in the expanded list, 0 if none
FirstAt(x) ==
    LET l == upd.data["metrics"]
        at == {i \in 1..Len(l) : l[i] = x}
    IN IF at = {} THEN 0 ELSE CHOOSE i \in at : \A j \in at : i <= j

\* C10: on an acyclic 'extends' graph the expansion of the old profile ends, and
\* from then on data['metrics'] is expand(profile_old); every metric of every
\* document reached is in it, and the metrics of a base come ahead of the
\* metrics of the document that extends it.
C10_ExpandsAsDefined ==
    <>[](/\ upd.pc \in {"collect", "diff", "done"}
         /\ upd.stack = <<>>
         /\ upd.data["metrics"] = ExpandRec(ProfileOld)
         /\ \A f \in ReachableFrom(ProfileOld) :
               LET own == GetOr(docs[f], "metrics")
                   bases == GetOr(docs[f], "extends")
               IN /\ \A i \in 1..Len(own) : FirstAt(own[i]) > 0
                  /\ \A b \in 1..Len(bases) :
                        LET theirs == GetOr(docs[bases[b]], "metrics")
                        IN \A i \in 1..Len(own), k \in 1..Len(theirs) :
                              FirstAt(theirs[k]) < FirstAt(own[i]))

\* C10's case: update_profile is done on a graph in which the old profile
\* extends two bases, one of which extends a base the other extends too.
C10_Witness ==
    /\ upd.pc = "done"
    /\ Len(GetOr(docs[ProfileOld], "extends")) = 2
    /\ \E a, b \in 1..2 :
          /\ a # b
          /\ docs[ProfileOld]["extends"][b]
                \in Range(GetOr(docs[docs[ProfileOld]["extends"][a]], "extends"))
    /\ Len(upd.data["metrics"]) >= 6

=============================================================================
